---- MODULE Spec2Model ----
(***************************************************************************)
(* Model of src/analysis.py: the batch coordinator that matches the        *)
(* candidate corpus (unlabelled_dataset/<category>/<file>.sol) against the *)
(* reference identifiers (sub-directories of mythril/), asks the model for *)
(* one reply per matched target, strips markdown fences from the reply,    *)
(* parses it, backfills the report and persists <identifier>.json or       *)
(* <identifier>_raw.txt into the output directory.                         *)
(*                                                                         *)
(* Texts (file names, replies) are sequences of one-character strings, so  *)
(* that startswith / endswith / slicing / strip act on characters.         *)
(***************************************************************************)
EXTENDS Integers, Sequences, FiniteSets, TLC

(***************************************************************************)
(* Bounds of the model.                                                    *)
(***************************************************************************)
MaxRuns == 2
MaxFiles == 2
MaxTime == 1

(***************************************************************************)
(* Text primitives (Python str methods used by the script).                *)
(***************************************************************************)
Whitespace == {" ", "\n"}

StartsWith(s, p) == Len(s) >= Len(p) /\ SubSeq(s, 1, Len(p)) = p

EndsWith(s, p) == Len(s) >= Len(p) /\ SubSeq(s, Len(s) - Len(p) + 1, Len(s)) = p

\* s[n:]
DropFirst(s, n) == SubSeq(s, n + 1, Len(s))

\* s[:-n]
DropLast(s, n) == SubSeq(s, 1, Len(s) - n)

RECURSIVE LStrip(_)
LStrip(s) == IF s # <<>> /\ Head(s) \in Whitespace THEN LStrip(Tail(s)) ELSE s

RECURSIVE RStrip(_)
RStrip(s) == IF s # <<>> /\ s[Len(s)] \in Whitespace THEN RStrip(DropLast(s, 1)) ELSE s

\* str.strip()
Strip(s) == RStrip(LStrip(s))

\* needle in haystack, for two str values
IsSubstring(needle, hay) ==
    \E i \in 0..(Len(hay) - Len(needle)) : SubSeq(hay, i + 1, i + Len(needle)) = needle

RECURSIVE Join(_)
Join(parts) == IF parts = <<>> THEN <<>> ELSE Head(parts) \o Join(Tail(parts))

(***************************************************************************)
(* Markdown clean-up of the reply (lines 214-223).                         *)
(***************************************************************************)
\* the grave accent (U+0060); the TLA+ lexer rejects that character inside a
\* string, so "^" stands for it in every text of the model
Backtick == "^"

FenceJson == <<Backtick, Backtick, Backtick, "j", "s", "o", "n">>

Fence == <<Backtick, Backtick, Backtick>>

\* a slip: the json-tagged opener is cut like the bare one, three characters
StripJsonOpenerShort(s) == IF StartsWith(s, FenceJson) THEN DropFirst(s, 3) ELSE s

\* if output.startswith('```json'): output = output[7:]
StripJsonOpener(s) == IF StartsWith(s, FenceJson) THEN DropFirst(s, 7) ELSE s

\* if output.startswith('```'): output = output[3:]
StripBareOpener(s) == IF StartsWith(s, Fence) THEN DropFirst(s, 3) ELSE s

\* if output.endswith('```'): output = output[:-3]
StripCloser(s) == IF EndsWith(s, Fence) THEN DropLast(s, 3) ELSE s

\* output = response.text.strip(); three independent ifs; output = output.strip()
CleanOutput(text) == Strip(StripCloser(StripBareOpener(StripJsonOpener(Strip(text)))))

(***************************************************************************)
(* Structured documents: tagged values [t, v].  Object keys are texts.     *)
(***************************************************************************)
JNum(n) == [t |-> "num", v |-> n]
JStr(s) == [t |-> "str", v |-> s]
JArr(items) == [t |-> "arr", v |-> items]
JObj(f) == [t |-> "obj", v |-> f]
JNull == [t |-> "null", v |-> 0]

\* outcomes that are not documents
JSONDecodeError == [t |-> "JSONDecodeError", v |-> 0]
TypeError == [t |-> "TypeError", v |-> 0]

K_start == <<"s", "t", "a", "r", "t">>
K_end == <<"e", "n", "d">>
K_duration == <<"d", "u", "r", "a", "t", "i", "o", "n">>
K_contract == <<"c", "o", "n", "t", "r", "a", "c", "t">>
K_tool == <<"t", "o", "o", "l">>
K_issues == <<"i", "s", "s", "u", "e", "s">>

RequiredKeys == {K_start, K_end, K_duration, K_contract, K_tool}

\* the order in which a serializer emits the keys of an object
KeyOrder == <<K_contract, K_tool, K_start, K_end, K_duration, K_issues>>

\* json_data["tool"] = "mythril"
ToolName == <<"m", "y", "t", "h", "r", "i", "l">>

Put(f, k, val) == [x \in (DOMAIN f) \cup {k} |-> IF x = k THEN val ELSE f[x]]

DigitChar(n) == <<"0", "1", "2", "3", "4", "5", "6", "7", "8", "9">>[n + 1]

Quote == <<"\"">>

RECURSIVE Serialize(_)
RECURSIVE SerializeItems(_)
RECURSIVE SerializeMembers(_, _)

\* "a,b,c" for the items of an array
SerializeItems(items) ==
    IF items = <<>> THEN <<>>
    ELSE IF Len(items) = 1 THEN Serialize(items[1])
    ELSE Serialize(items[1]) \o <<",">> \o SerializeItems(Tail(items))

\* "k":v,"k":v for the keys of f, in the order keys gives
SerializeMembers(f, keys) ==
    IF keys = <<>> THEN <<>>
    ELSE LET k == Head(keys)
             rest == SerializeMembers(f, Tail(keys))
         IN IF k \notin DOMAIN f THEN rest
            ELSE Quote \o k \o Quote \o <<":">> \o Serialize(f[k])
                 \o (IF rest = <<>> THEN <<>> ELSE <<",">> \o rest)

\* the compact JSON text of a document
Serialize(d) ==
    CASE d.t = "num" -> <<DigitChar(d.v)>>
      [] d.t = "str" -> Quote \o d.v \o Quote
      [] d.t = "null" -> <<"n", "u", "l", "l">>
      [] d.t = "arr" -> <<"[">> \o SerializeItems(d.v) \o <<"]">>
      [] d.t = "obj" -> <<"{">> \o SerializeMembers(d.v, KeyOrder) \o <<"}">>

(***************************************************************************)
(* The documents the model can reply with, and json.loads over them.       *)
(***************************************************************************)
AllKeys == RequiredKeys \cup {K_issues}

\* the value a model document gives a key it defines
ModelValue(k) ==
    CASE k = K_start -> JNum(3)
      [] k = K_end -> JNum(4)
      [] k = K_duration -> JNum(9)
      [] k = K_contract -> JStr(<<"X">>)
      [] k = K_tool -> JStr(<<"m">>)
      [] k = K_issues -> JArr(<<>>)

\* objects defining any subset of the keys
ObjectDocs == {JObj([k \in S |-> ModelValue(k)]) : S \in SUBSET AllKeys}

DocKeyArray == JArr(<<JStr(K_start), JStr(K_end), JStr(K_duration), JStr(K_contract), JStr(K_tool)>>)

DocKeyString == JStr(Join(<<K_start, K_end, K_duration, K_contract, K_tool>>))

\* documents whose top level is not an object
NonObjectDocs == {JArr(<<>>), JArr(<<JStr(K_start)>>), DocKeyArray,
                  JStr(<<"h", "i">>), JStr(K_start), DocKeyString, JNum(7), JNull}

ModelDocs == ObjectDocs \cup NonObjectDocs

\* the JSON text of every document, paired with the document
JsonTexts == {<<Serialize(d), d>> : d \in ModelDocs}

\* json.loads(output): the document the text is the JSON of, or JSONDecodeError
Parse(text) ==
    IF \E e \in JsonTexts : e[1] = text
    THEN (CHOOSE e \in JsonTexts : e[1] = text)[2]
    ELSE JSONDecodeError

(***************************************************************************)
(* Backfill of the required fields (lines 229-238).                        *)
(***************************************************************************)
\* Python's  key in json_data  for the types that support it
HasKey(d, k) ==
    CASE d.t = "obj" -> k \in DOMAIN d.v
      [] d.t = "arr" -> \E i \in 1..Len(d.v) : d.v[i] = JStr(k)
      [] d.t = "str" -> IsSubstring(k, d.v)

\* a slip: the field is assigned without the  not in  test
BackfillFieldOverwrites(d, k, val) ==
    IF d.t = "TypeError" THEN d
    ELSE IF d.t = "obj" THEN JObj(Put(d.v, k, val))
    ELSE TypeError

\* if key not in json_data: json_data[key] = val
\* (TypeError: `in` on a number or null, item assignment on an array or a string)
BackfillField(d, k, val) ==
    IF d.t = "TypeError" THEN d
    ELSE IF d.t \notin {"obj", "arr", "str"} THEN TypeError
    ELSE IF HasKey(d, k) THEN d
    ELSE IF d.t = "obj" THEN JObj(Put(d.v, k, val))
    ELSE TypeError

Backfill(d, start_time, end_time, sol_file) ==
    LET duration == end_time - start_time
        d1 == BackfillField(d, K_start, JNum(start_time))
        d2 == BackfillField(d1, K_end, JNum(end_time))
        d3 == BackfillField(d2, K_duration, JNum(duration))
        d4 == BackfillField(d3, K_contract, JStr(sol_file))
    IN BackfillField(d4, K_tool, JStr(ToolName))

(***************************************************************************)
(* The corpora and the replies of the model service.                       *)
(***************************************************************************)
Sol == <<".", "s", "o", "l">>

JsonSuffix == <<".", "j", "s", "o", "n">>

RawSuffix == <<"_", "r", "a", "w", ".", "t", "x", "t">>

\* category directories of INPUT_DIR, and a plain file lying next to them
Categories == {"c1", "c2"}

\* the files the category directories may hold, as <<category, file name>>
CandidateFiles ==
    {<<"c1", <<"A">> \o Sol>>, <<"c1", <<"B">> \o Sol>>,
     <<"c1", <<"A", ".", "t", "x", "t">>>>, <<"c2", <<"A">> \o Sol>>}

\* the entries the reference directory may hold
ReferenceEntries ==
    {[name |-> <<"A">>, isdir |-> TRUE], [name |-> <<"B">>, isdir |-> TRUE],
     [name |-> <<"B">>, isdir |-> FALSE]}

PlainEntry == "notes"

Times == 0..MaxTime

\* the replies the model service gives during a batch
FencedReply ==
    FenceJson \o <<"\n">> \o Serialize(JObj([k \in {K_issues} |-> ModelValue(k)]))
    \o <<"\n">> \o Fence

FullReply == Serialize(JObj([k \in AllKeys |-> ModelValue(k)]))

TextReply == <<"n", "o", "t", " ", "j", "s", "o", "n">>

KeyArrayReply == Fence \o Serialize(DocKeyArray) \o Fence

NullReply == Serialize(JNull)

RunReplies == {FencedReply, FullReply, TextReply, KeyArrayReply, NullReply}

\* lines 214-223 applied to each of them
CleanedReply == [r \in RunReplies |-> CleanOutput(r)]

\* json.loads(output) for each of them
ParsedReply == [r \in RunReplies |-> Parse(CleanOutput(r))]

\* content of an output file
RawText(text) == [t |-> "raw", v |-> text]

\* what an interrupted write leaves behind
Truncated == [t |-> "truncated", v |-> 0]

NoFiles == [p \in {} |-> Truncated]

(***************************************************************************)
(* State.                                                                  *)
(***************************************************************************)
VARIABLES
    reference,              \* listing of NAME_SOURCE_DIR: records [name, isdir]
    inputDir,               \* listing of INPUT_DIR: entry -> [isdir, files]
    outputDir,              \* files of OUTPUT_DIR: path -> content
    outDirExists,           \* OUTPUT_DIR has been created
    api_key,                \* GOOGLE_API_KEY is set in the environment
    pc,                     \* position of the script
    mythril_contract_names,
    processed_count,
    found_count,
    catsLeft,               \* entries of INPUT_DIR the outer loop has yet to visit
    category,               \* the outer loop's current entry
    filesLeft,              \* entries of the category the inner loop has yet to visit
    run,                    \* number of the run (history)
    startFiles,             \* paths of outputDir when the run started (history)
    status,                 \* matched target -> terminal state in this run (history)
    invoked,                \* matched target -> generate_content calls in this run (history)
    writes,                 \* path -> completed writes in this run (history)
    item                    \* the per-item pipeline observed on its own (ItemSpec)

staticVars == <<reference, inputDir>>

runVars == <<outputDir, outDirExists, api_key, pc, mythril_contract_names,
             processed_count, found_count, catsLeft, category, filesLeft,
             run, startFiles, status, invoked, writes>>

vars == <<reference, inputDir, outputDir, outDirExists, api_key, pc,
          mythril_contract_names, processed_count, found_count, catsLeft, category,
          filesLeft, run, startFiles, status, invoked, writes, item>>

(***************************************************************************)
(* Construction: the corpora on disk, an empty output location, no run yet.*)
(***************************************************************************)
\* a directory holds one entry of a name; here it holds an entry named B,
\* a sub-directory or a plain file, and perhaps the sub-directory A
ReferenceListings ==
    {L \in SUBSET ReferenceEntries :
        /\ \A x, y \in L : x.name = y.name => x = y
        /\ \E x \in L : x.name = <<"B">>}

InputListings ==
    {[e \in Categories \cup {PlainEntry} |->
        IF e = PlainEntry THEN [isdir |-> FALSE, files |-> {}]
        ELSE [isdir |-> TRUE, files |-> {cf[2] : cf \in {x \in C : x[1] = e}}]] :
     C \in {D \in SUBSET CandidateFiles : Cardinality(D) <= MaxFiles}}

NoItem == [pc |-> "none"]

NoTargets == [x \in {} |-> 0]

RunInit ==
    /\ reference \in ReferenceListings
    /\ inputDir \in InputListings
    /\ outputDir = NoFiles
    /\ outDirExists = FALSE
    /\ api_key \in BOOLEAN
    /\ pc = "start"
    /\ mythril_contract_names = {}
    /\ processed_count = 0
    /\ found_count = 0
    /\ catsLeft = {}
    /\ category = "none"
    /\ filesLeft = {}
    /\ run = 1
    /\ startFiles = {}
    /\ status = NoTargets
    /\ invoked = NoTargets
    /\ writes = NoFiles

Init == RunInit /\ item = NoItem

(***************************************************************************)
(* Start-up (lines 142-160).                                               *)
(***************************************************************************)
\* a slip: the key is tested after the set-up of lines 148-154
StartupAbortLate ==
    /\ pc = "start"
    /\ ~api_key
    /\ outDirExists' = TRUE
    /\ mythril_contract_names' = {e.name : e \in {x \in reference : x.isdir}}
    /\ pc' = "aborted"
    /\ UNCHANGED <<staticVars, outputDir, api_key, processed_count, found_count,
                   catsLeft, category, filesLeft, run, startFiles, status, invoked,
                   writes, item>>

\* if not api_key: raise ValueError
StartupAbort ==
    /\ pc = "start"
    /\ ~api_key
    /\ pc' = "aborted"
    /\ UNCHANGED <<staticVars, outputDir, outDirExists, api_key, mythril_contract_names,
                   processed_count, found_count, catsLeft, category, filesLeft, run,
                   startFiles, status, invoked, writes, item>>

\* the names of the sub-directories of NAME_SOURCE_DIR
ReferenceIdentifiers == {e.name : e \in {x \in reference : x.isdir}}

\* makedirs, the reference set, the counters; the outer loop lists INPUT_DIR
Startup ==
    /\ pc = "start"
    /\ api_key
    /\ outDirExists' = TRUE
    /\ mythril_contract_names' = ReferenceIdentifiers
    /\ processed_count' = 0
    /\ found_count' = 0
    /\ catsLeft' = DOMAIN inputDir
    /\ category' = "none"
    /\ filesLeft' = {}
    /\ pc' = "categories"
    /\ startFiles' = DOMAIN outputDir
    /\ UNCHANGED <<staticVars, outputDir, api_key, run, status, invoked, writes, item>>

(***************************************************************************)
(* Outer loop (lines 163-173) and the summary (lines 263-266).             *)
(***************************************************************************)
\* if not os.path.isdir(category_path): continue
SkipNonDirectory ==
    /\ pc = "categories"
    /\ \E c \in catsLeft :
        /\ ~inputDir[c].isdir
        /\ catsLeft' = catsLeft \ {c}
    /\ UNCHANGED <<staticVars, outputDir, outDirExists, api_key, pc,
                   mythril_contract_names, processed_count, found_count, category,
                   filesLeft, run, startFiles, status, invoked, writes, item>>

\* for sol_file in os.listdir(category_path)
EnterCategory ==
    /\ pc = "categories"
    /\ \E c \in catsLeft :
        /\ inputDir[c].isdir
        /\ catsLeft' = catsLeft \ {c}
        /\ category' = c
        /\ filesLeft' = inputDir[c].files
    /\ pc' = "files"
    /\ UNCHANGED <<staticVars, outputDir, outDirExists, api_key,
                   mythril_contract_names, processed_count, found_count, run,
                   startFiles, status, invoked, writes, item>>

\* the inner loop is exhausted
LeaveCategory ==
    /\ pc = "files"
    /\ filesLeft = {}
    /\ pc' = "categories"
    /\ UNCHANGED <<staticVars, outputDir, outDirExists, api_key,
                   mythril_contract_names, processed_count, found_count, catsLeft,
                   category, filesLeft, run, startFiles, status, invoked, writes, item>>

\* the outer loop is exhausted: print the summary
Summary ==
    /\ pc = "categories"
    /\ catsLeft = {}
    /\ pc' = "done"
    /\ UNCHANGED <<staticVars, outputDir, outDirExists, api_key,
                   mythril_contract_names, processed_count, found_count, catsLeft,
                   category, filesLeft, run, startFiles, status, invoked, writes, item>>

\* the script is started again: same corpora, same environment, same output directory
Rerun ==
    /\ pc \in {"done", "aborted"}
    /\ run < MaxRuns
    /\ run' = run + 1
    /\ pc' = "start"
    /\ status' = NoTargets
    /\ invoked' = NoTargets
    /\ writes' = NoFiles
    /\ UNCHANGED <<staticVars, outputDir, outDirExists, api_key, mythril_contract_names,
                   processed_count, found_count, catsLeft, category, filesLeft,
                   startFiles, item>>

(***************************************************************************)
(* Inner loop: one action per way an iteration can go (lines 173-261).     *)
(***************************************************************************)
\* sol_file.endswith('.sol')
IsSolFile(sol_file) == EndsWith(sol_file, Sol)

\* a slip: the slice keeps the dot of the extension
ContractNameKeepsDot(sol_file) == DropLast(sol_file, 3)

\* contract_name = sol_file[:-4]
ContractName(sol_file) == DropLast(sol_file, 4)

\* the candidate passes both filters of lines 174-182
IsMatched(sol_file) ==
    /\ IsSolFile(sol_file)
    /\ ContractName(sol_file) \in mythril_contract_names

\* output_path = os.path.join(OUTPUT_DIR, f"{contract_name}.json")
OutputPath(contract_name) == contract_name \o JsonSuffix

\* raw_path = os.path.join(OUTPUT_DIR, f"{contract_name}_raw.txt")
RawPath(contract_name) == contract_name \o RawSuffix

\* a slip: the raw fallback artifact counts as done too
OutputExistsOrRaw(contract_name) ==
    \/ OutputPath(contract_name) \in DOMAIN outputDir
    \/ RawPath(contract_name) \in DOMAIN outputDir

\* a slip: the raw path is tested instead of the report's
OutputExistsChecksRaw(contract_name) == RawPath(contract_name) \in DOMAIN outputDir

\* os.path.exists(output_path)
OutputExists(contract_name) == OutputPath(contract_name) \in DOMAIN outputDir

Target(sol_file) == <<category, sol_file>>

Bump(f, x) == Put(f, x, (IF x \in DOMAIN f THEN f[x] ELSE 0) + 1)

LoopFrame ==
    UNCHANGED <<staticVars, outDirExists, api_key, pc, mythril_contract_names,
                catsLeft, category, run, startFiles, item>>

\* if not sol_file.endswith('.sol'): continue
SkipNotSol ==
    /\ pc = "files"
    /\ \E f \in filesLeft :
        /\ ~IsSolFile(f)
        /\ filesLeft' = filesLeft \ {f}
    /\ UNCHANGED <<outputDir, processed_count, found_count, status, invoked, writes>>
    /\ LoopFrame

\* if contract_name not in mythril_contract_names: continue
SkipUnmatched ==
    /\ pc = "files"
    /\ \E f \in filesLeft :
        /\ IsSolFile(f)
        /\ ContractName(f) \notin mythril_contract_names
        /\ filesLeft' = filesLeft \ {f}
    /\ UNCHANGED <<outputDir, processed_count, found_count, status, invoked, writes>>
    /\ LoopFrame

\* a slip: the existence test comes before found_count += 1
SkipExistingUncounted ==
    /\ pc = "files"
    /\ \E f \in filesLeft :
        /\ IsMatched(f)
        /\ OutputExists(ContractName(f))
        /\ filesLeft' = filesLeft \ {f}
        /\ status' = Put(status, Target(f), "SkippedExisting")
    /\ found_count' = found_count
    /\ UNCHANGED <<outputDir, processed_count, invoked, writes>>
    /\ LoopFrame

\* found_count += 1; if os.path.exists(output_path): continue
SkipExisting ==
    /\ pc = "files"
    /\ \E f \in filesLeft :
        /\ IsMatched(f)
        /\ OutputExists(ContractName(f))
        /\ filesLeft' = filesLeft \ {f}
        /\ status' = Put(status, Target(f), "SkippedExisting")
    /\ found_count' = found_count + 1
    /\ UNCHANGED <<outputDir, processed_count, invoked, writes>>
    /\ LoopFrame

\* a slip: no handler at the item boundary, the exception ends the batch
ReadFailsEndsBatch ==
    /\ pc = "files"
    /\ \E f \in filesLeft :
        /\ IsMatched(f)
        /\ ~OutputExists(ContractName(f))
        /\ filesLeft' = {}
        /\ status' = Put(status, Target(f), "FailedRead")
    /\ found_count' = found_count + 1
    /\ catsLeft' = {}
    /\ pc' = "done"
    /\ UNCHANGED <<staticVars, outputDir, outDirExists, api_key, mythril_contract_names,
                   processed_count, category, run, startFiles, invoked, writes, item>>

\* open(input_path) / f.read() / GenerativeModel(...) raises: except Exception
ReadFails ==
    /\ pc = "files"
    /\ \E f \in filesLeft :
        /\ IsMatched(f)
        /\ ~OutputExists(ContractName(f))
        /\ filesLeft' = filesLeft \ {f}
        /\ status' = Put(status, Target(f), "FailedRead")
    /\ found_count' = found_count + 1
    /\ UNCHANGED <<outputDir, processed_count, invoked, writes>>
    /\ LoopFrame

\* a slip: the failed request leaves the target in the loop, to be asked once more
RequestFailsRetries ==
    /\ pc = "files"
    /\ \E f \in filesLeft :
        /\ IsMatched(f)
        /\ ~OutputExists(ContractName(f))
        /\ (Target(f) \in DOMAIN invoked => invoked[Target(f)] < 2)
        /\ filesLeft' = filesLeft
        /\ status' = Put(status, Target(f), "FailedRequest")
        /\ invoked' = Bump(invoked, Target(f))
    /\ found_count' = found_count
    /\ UNCHANGED <<outputDir, processed_count, writes>>
    /\ LoopFrame

\* model.generate_content(...) (or response.text) raises: except Exception
RequestFails ==
    /\ pc = "files"
    /\ \E f \in filesLeft :
        /\ IsMatched(f)
        /\ ~OutputExists(ContractName(f))
        /\ filesLeft' = filesLeft \ {f}
        /\ status' = Put(status, Target(f), "FailedRequest")
        /\ invoked' = Bump(invoked, Target(f))
    /\ found_count' = found_count + 1
    /\ UNCHANGED <<outputDir, processed_count, writes>>
    /\ LoopFrame

\* the reply parses and the backfill goes through: the report is written
Succeed ==
    /\ pc = "files"
    /\ \E f \in filesLeft, reply \in RunReplies, start_time \in Times, end_time \in Times :
        LET output == CleanedReply[reply]
            json_data == Backfill(ParsedReply[reply], start_time, end_time, f)
            output_path == OutputPath(ContractName(f))
        IN /\ IsMatched(f)
           /\ ~OutputExists(ContractName(f))
           /\ ParsedReply[reply] # JSONDecodeError
           /\ json_data # TypeError
           /\ filesLeft' = filesLeft \ {f}
           /\ outputDir' = Put(outputDir, output_path, json_data)
           /\ writes' = Bump(writes, output_path)
           /\ status' = Put(status, Target(f), "Succeeded")
           /\ invoked' = Bump(invoked, Target(f))
    /\ found_count' = found_count + 1
    /\ processed_count' = processed_count + 1
    /\ LoopFrame

\* the reply parses, the backfill raises TypeError: except Exception
AssembleFails ==
    /\ pc = "files"
    /\ \E f \in filesLeft, reply \in RunReplies :
        LET output == CleanedReply[reply]
        IN /\ IsMatched(f)
           /\ ~OutputExists(ContractName(f))
           /\ ParsedReply[reply] # JSONDecodeError
           /\ \E start_time \in Times, end_time \in Times :
                 Backfill(ParsedReply[reply], start_time, end_time, f) = TypeError
           /\ filesLeft' = filesLeft \ {f}
           /\ status' = Put(status, Target(f), "FailedAssemble")
           /\ invoked' = Bump(invoked, Target(f))
    /\ found_count' = found_count + 1
    /\ UNCHANGED <<outputDir, processed_count, writes>>
    /\ LoopFrame

\* open(output_path, "w") or json.dump raises: nothing, or a truncated file, is left
PersistFails ==
    /\ pc = "files"
    /\ \E f \in filesLeft, reply \in RunReplies :
        LET output == CleanedReply[reply]
            output_path == OutputPath(ContractName(f))
        IN /\ IsMatched(f)
           /\ ~OutputExists(ContractName(f))
           /\ ParsedReply[reply] # JSONDecodeError
           /\ \E start_time \in Times, end_time \in Times :
                 Backfill(ParsedReply[reply], start_time, end_time, f) # TypeError
           /\ filesLeft' = filesLeft \ {f}
           /\ outputDir' \in {outputDir, Put(outputDir, output_path, Truncated)}
           /\ status' = Put(status, Target(f), "FailedPersist")
           /\ invoked' = Bump(invoked, Target(f))
    /\ found_count' = found_count + 1
    /\ UNCHANGED <<processed_count, writes>>
    /\ LoopFrame

\* a slip: the fallback branch forgets processed_count += 1
FallbackUncounted ==
    /\ pc = "files"
    /\ \E f \in filesLeft, reply \in RunReplies :
        LET output == CleanedReply[reply]
            raw_path == RawPath(ContractName(f))
        IN /\ IsMatched(f)
           /\ ~OutputExists(ContractName(f))
           /\ ParsedReply[reply] = JSONDecodeError
           /\ filesLeft' = filesLeft \ {f}
           /\ outputDir' = Put(outputDir, raw_path, RawText(output))
           /\ writes' = Bump(writes, raw_path)
           /\ status' = Put(status, Target(f), "FallbackSaved")
           /\ invoked' = Bump(invoked, Target(f))
    /\ found_count' = found_count + 1
    /\ processed_count' = processed_count
    /\ LoopFrame

\* json.JSONDecodeError: the cleaned text is written to the raw file
Fallback ==
    /\ pc = "files"
    /\ \E f \in filesLeft, reply \in RunReplies :
        LET output == CleanedReply[reply]
            raw_path == RawPath(ContractName(f))
        IN /\ IsMatched(f)
           /\ ~OutputExists(ContractName(f))
           /\ ParsedReply[reply] = JSONDecodeError
           /\ filesLeft' = filesLeft \ {f}
           /\ outputDir' = Put(outputDir, raw_path, RawText(output))
           /\ writes' = Bump(writes, raw_path)
           /\ status' = Put(status, Target(f), "FallbackSaved")
           /\ invoked' = Bump(invoked, Target(f))
    /\ found_count' = found_count + 1
    /\ processed_count' = processed_count + 1
    /\ LoopFrame

\* a slip: the exception raised inside the JSONDecodeError handler is taken to
\* escape the item's try statement, and the traceback ends the script
RawWriteFailsEndsBatch ==
    /\ pc = "files"
    /\ \E f \in filesLeft, reply \in RunReplies :
        LET output == CleanedReply[reply]
            raw_path == RawPath(ContractName(f))
        IN /\ IsMatched(f)
           /\ ~OutputExists(ContractName(f))
           /\ ParsedReply[reply] = JSONDecodeError
           /\ filesLeft' = filesLeft \ {f}
           /\ outputDir' \in {outputDir, Put(outputDir, raw_path, Truncated)}
           /\ status' = Put(status, Target(f), "FailedPersist")
           /\ invoked' = Bump(invoked, Target(f))
    /\ found_count' = found_count + 1
    /\ pc' = "crashed"
    /\ UNCHANGED <<staticVars, outDirExists, api_key, mythril_contract_names,
                   processed_count, catsLeft, category, run, startFiles, writes, item>>

\* open(raw_path, "w") or f.write raises inside the handler: except Exception
RawWriteFails ==
    /\ pc = "files"
    /\ \E f \in filesLeft, reply \in RunReplies :
        LET output == CleanedReply[reply]
            raw_path == RawPath(ContractName(f))
        IN /\ IsMatched(f)
           /\ ~OutputExists(ContractName(f))
           /\ ParsedReply[reply] = JSONDecodeError
           /\ filesLeft' = filesLeft \ {f}
           /\ outputDir' \in {outputDir, Put(outputDir, raw_path, Truncated)}
           /\ status' = Put(status, Target(f), "FailedPersist")
           /\ invoked' = Bump(invoked, Target(f))
    /\ found_count' = found_count + 1
    /\ UNCHANGED <<processed_count, writes>>
    /\ LoopFrame

Next ==
    \/ StartupAbort
    \/ Startup
    \/ SkipNonDirectory
    \/ EnterCategory
    \/ LeaveCategory
    \/ Summary
    \/ Rerun
    \/ SkipNotSol
    \/ SkipUnmatched
    \/ SkipExisting
    \/ ReadFails
    \/ RequestFails
    \/ Succeed
    \/ AssembleFails
    \/ PersistFails
    \/ Fallback
    \/ RawWriteFails

Spec == Init /\ [][Next]_vars

\* the batch is between its first listing and its summary
Running == pc \in {"categories", "files"}

\* the script is sequential and every call it makes returns or raises: while the
\* batch is running the next statement is executed
LiveSpec == Init /\ [][Next]_vars /\ WF_vars(Running /\ Next)

(***************************************************************************)
(* The per-item pipeline on its own (lines 203-256): one reply is cleaned, *)
(* parsed, backfilled and persisted, one statement group per action.       *)
(***************************************************************************)
\* whitespace a reply may carry around the fences
Pads == {<<>>, <<"\n">>, <<" ", "\n">>}

NoDoc == [t |-> "none", v |-> 0]

\* the JSON of d inside an opening and a closing fence
Wrapped(d, opener, outer, inner) ==
    outer \o opener \o inner \o Serialize(d) \o inner \o Fence \o outer

\* replies that wrap a document in fences, with the document they wrap
FencedReplies ==
    {[text |-> Wrapped(d, opener, outer, inner), doc |-> d] :
        d \in ModelDocs, opener \in {FenceJson, Fence}, outer \in Pads, inner \in Pads}

\* replies that are the bare JSON of a document
PlainReplies == {[text |-> Serialize(d), doc |-> NoDoc] : d \in ModelDocs}

\* other replies: prose, half-fenced or doubly fenced JSON, nothing but fences
OtherReplies ==
    {[text |-> x, doc |-> NoDoc] :
        x \in {TextReply, <<>>, Fence, FenceJson \o Fence,
               Fence \o TextReply \o Fence,
               FenceJson \o Serialize(JNull),
               Serialize(JNull) \o Fence,
               FenceJson \o Fence \o Serialize(JNull) \o Fence}}

ItemReplies == FencedReplies \cup PlainReplies \cup OtherReplies

SolFiles == {cf[2] : cf \in {x \in CandidateFiles : EndsWith(x[2], Sol)}}

\* the state after response = model.generate_content(...) and end_time = ...
ItemInit ==
    /\ \E sol_file \in SolFiles, r \in ItemReplies, start_time \in Times, end_time \in Times :
        item = [pc |-> "replied", sol_file |-> sol_file, text |-> r.text,
                doc |-> r.doc, start_time |-> start_time, end_time |-> end_time,
                output |-> <<>>, parsed |-> NoDoc, json_data |-> NoDoc,
                report |-> NoDoc, raw |-> NoDoc]
    /\ reference = {}
    /\ inputDir = [e \in {PlainEntry} |-> [isdir |-> FALSE, files |-> {}]]
    /\ outputDir = NoFiles
    /\ outDirExists = TRUE
    /\ api_key = TRUE
    /\ pc = "item"
    /\ mythril_contract_names = {}
    /\ processed_count = 0
    /\ found_count = 0
    /\ catsLeft = {}
    /\ category = "none"
    /\ filesLeft = {}
    /\ run = 1
    /\ startFiles = {}
    /\ status = NoTargets
    /\ invoked = NoTargets
    /\ writes = NoFiles

\* lines 214-223
ItemClean ==
    /\ item.pc = "replied"
    /\ item' = [item EXCEPT !.pc = "cleaned", !.output = CleanOutput(item.text)]
    /\ UNCHANGED <<staticVars, runVars>>

\* line 226, json.loads returns
ItemParse ==
    /\ item.pc = "cleaned"
    /\ Parse(item.output) # JSONDecodeError
    /\ item' = [item EXCEPT !.pc = "parsed", !.parsed = Parse(item.output),
                            !.json_data = Parse(item.output)]
    /\ UNCHANGED <<staticVars, runVars>>

\* line 226, json.loads raises json.JSONDecodeError
ItemDecodeError ==
    /\ item.pc = "cleaned"
    /\ Parse(item.output) = JSONDecodeError
    /\ item' = [item EXCEPT !.pc = "decode_error"]
    /\ UNCHANGED <<staticVars, runVars>>

\* lines 229-238 run to the end
ItemBackfill ==
    /\ item.pc = "parsed"
    /\ Backfill(item.json_data, item.start_time, item.end_time, item.sol_file) # TypeError
    /\ item' = [item EXCEPT !.pc = "assembled",
                            !.json_data = Backfill(item.json_data, item.start_time,
                                                   item.end_time, item.sol_file)]
    /\ UNCHANGED <<staticVars, runVars>>

\* lines 229-238 raise TypeError: except Exception
ItemBackfillRaises ==
    /\ item.pc = "parsed"
    /\ Backfill(item.json_data, item.start_time, item.end_time, item.sol_file) = TypeError
    /\ item' = [item EXCEPT !.pc = "failed"]
    /\ UNCHANGED <<staticVars, runVars>>

\* what a write step of the pipeline leaves alone
ItemWriteFrame ==
    UNCHANGED <<staticVars, outputDir, outDirExists, api_key, pc, mythril_contract_names,
                found_count, catsLeft, category, filesLeft, run, startFiles, status,
                invoked, writes>>

\* lines 240-243
ItemWriteReport ==
    /\ item.pc = "assembled"
    /\ item' = [item EXCEPT !.pc = "succeeded", !.report = item.json_data]
    /\ processed_count' = processed_count + 1
    /\ ItemWriteFrame

\* lines 240-241 raise: nothing, or a truncated file, is left; except Exception
ItemWriteReportFails ==
    /\ item.pc = "assembled"
    /\ \E left \in {NoDoc, Truncated} :
          item' = [item EXCEPT !.pc = "failed", !.report = left]
    /\ processed_count' = processed_count
    /\ ItemWriteFrame

\* a slip: the raw file receives the reply as it came, not the cleaned text
ItemWriteRawUncleaned ==
    /\ item.pc = "decode_error"
    /\ item' = [item EXCEPT !.pc = "fallback_saved", !.raw = RawText(item.text)]
    /\ processed_count' = processed_count + 1
    /\ ItemWriteFrame

\* lines 249-253
ItemWriteRaw ==
    /\ item.pc = "decode_error"
    /\ item' = [item EXCEPT !.pc = "fallback_saved", !.raw = RawText(item.output)]
    /\ processed_count' = processed_count + 1
    /\ ItemWriteFrame

\* lines 250-251 raise inside the handler: except Exception
ItemWriteRawFails ==
    /\ item.pc = "decode_error"
    /\ \E left \in {NoDoc, Truncated} :
          item' = [item EXCEPT !.pc = "failed", !.raw = left]
    /\ processed_count' = processed_count
    /\ ItemWriteFrame

ItemNext ==
    \/ ItemClean
    \/ ItemParse
    \/ ItemDecodeError
    \/ ItemBackfill
    \/ ItemBackfillRaises
    \/ ItemWriteReport
    \/ ItemWriteReportFails
    \/ ItemWriteRaw
    \/ ItemWriteRawFails

ItemSpec == ItemInit /\ [][ItemNext]_vars

(***************************************************************************)
(* Vocabulary of the properties, stated on the listings and the history,   *)
(* not on the script's own filters.                                        *)
(***************************************************************************)
\* the candidate corpus C: the files of the category directories
CorpusTargets ==
    UNION {{<<c, f>> : f \in inputDir[c].files} :
               c \in {e \in DOMAIN inputDir : inputDir[e].isdir}}

\* {c \in C : identifier(c) \in R}: the file name is a reference identifier plus .sol
MatchedOf(C) == {t \in C : \E n \in ReferenceIdentifiers : t[2] = n \o Sol}

ExpectedMatched == MatchedOf(CorpusTargets)

IdentifierOf(t) == CHOOSE n \in ReferenceIdentifiers : t[2] = n \o Sol

MatchedIdentifiers == {IdentifierOf(t) : t \in ExpectedMatched}

TargetsOf(n) == {t \in ExpectedMatched : IdentifierOf(t) = n}

JsonOf(n) == n \o JsonSuffix

RawOf(n) == n \o RawSuffix

FailedStates == {"FailedRead", "FailedRequest", "FailedAssemble", "FailedPersist"}

StatusOf(t) == IF t \in DOMAIN status THEN status[t] ELSE "Discovered"

InvocationsOf(t) == IF t \in DOMAIN invoked THEN invoked[t] ELSE 0

WritesOf(path) == IF path \in DOMAIN writes THEN writes[path] ELSE 0

\* a file that holds what a finished write put there
IsComplete(path) == path \in DOMAIN outputDir /\ outputDir[path] # Truncated

HasCompletedArtifact(n) == IsComplete(JsonOf(n)) \/ IsComplete(RawOf(n))

\* the target is still ahead of the loops
Pending(t) == t[1] \in catsLeft \/ (pc = "files" /\ t[1] = category /\ t[2] \in filesLeft)

(***************************************************************************)
(* C1.  Idempotent resumption.                                             *)
(***************************************************************************)
\* C1 as stated: at the end of a second run that found the output directory
\* non-empty, no target of an identifier whose
\* <identifier>.json existed when the run started has been sent to the model,
\* and every matched identifier that had no <identifier>.json (only a raw
\* artifact, or nothing) has been sent to the model again.
C1_AsStated ==
    (pc = "done" /\ run >= 2 /\ startFiles # {}) =>
        \A n \in MatchedIdentifiers :
            IF JsonOf(n) \in startFiles
            THEN \A t \in TargetsOf(n) : InvocationsOf(t) = 0
            ELSE \E t \in TargetsOf(n) : InvocationsOf(t) >= 1

\* C1 amended: as above, except that an identifier without <identifier>.json is
\* attempted again rather than necessarily sent to the model: one of its targets
\* is sent to the model, or fails while its source is read, before the request.
C1_Resumption ==
    (pc = "done" /\ run >= 2 /\ startFiles # {}) =>
        \A n \in MatchedIdentifiers :
            IF JsonOf(n) \in startFiles
            THEN \A t \in TargetsOf(n) : InvocationsOf(t) = 0
            ELSE \E t \in TargetsOf(n) :
                    InvocationsOf(t) >= 1 \/ StatusOf(t) = "FailedRead"

\* a second run that skips an identifier with a report and asks the model again
\* for an identifier the first run left with a raw artifact only
C1_Witness ==
    /\ pc = "done"
    /\ run = 2
    /\ \E n, m \in MatchedIdentifiers :
        /\ JsonOf(n) \in startFiles
        /\ \A t \in TargetsOf(n) : StatusOf(t) = "SkippedExisting"
        /\ JsonOf(m) \notin startFiles
        /\ RawOf(m) \in startFiles
        /\ \E t \in TargetsOf(m) : InvocationsOf(t) = 1

(***************************************************************************)
(* C2.  Isolation of failure.                                              *)
(***************************************************************************)
\* C2: at the end of a batch that started on an empty output directory, if
\* exactly one matched target failed with an exception, every matched target of
\* another identifier has a completed <identifier>.json or <identifier>_raw.txt.
C2_Isolation ==
    (pc = "done" /\ startFiles = {}) =>
        \A t \in ExpectedMatched :
            (/\ StatusOf(t) \in FailedStates
             /\ \A u \in ExpectedMatched \ {t} : StatusOf(u) \notin FailedStates)
            => \A u \in ExpectedMatched :
                   IdentifierOf(u) # IdentifierOf(t) => HasCompletedArtifact(IdentifierOf(u))

\* a finished batch of two identifiers: one failed, the other one has its artifact
C2_Witness ==
    /\ pc = "done"
    /\ startFiles = {}
    /\ \E t, u \in ExpectedMatched :
        /\ IdentifierOf(u) # IdentifierOf(t)
        /\ StatusOf(t) \in FailedStates
        /\ StatusOf(u) \notin FailedStates
        /\ HasCompletedArtifact(IdentifierOf(u))

(***************************************************************************)
(* C3.  Report and raw fallback are mutually exclusive within a run.       *)
(***************************************************************************)
\* C3: within one run no identifier gets both its <identifier>.json and its
\* <identifier>_raw.txt written.
C3_NeverBoth ==
    \A n \in MatchedIdentifiers :
        ~(WritesOf(JsonOf(n)) >= 1 /\ WritesOf(RawOf(n)) >= 1)

(***************************************************************************)
(* C4.  Matching correctness.                                              *)
(***************************************************************************)
\* C4: when the batch ends, the targets treated as matched are exactly the
\* candidate files whose name is a reference identifier plus .sol, found_count
\* is their number, and both are what they would be for the corpus without any
\* one of its unrelated files.
C4_Matching ==
    pc = "done" =>
        /\ DOMAIN status = ExpectedMatched
        /\ found_count = Cardinality(ExpectedMatched)
        /\ \A x \in CorpusTargets \ ExpectedMatched :
            /\ DOMAIN status = MatchedOf(CorpusTargets \ {x})
            /\ found_count = Cardinality(MatchedOf(CorpusTargets \ {x}))

\* a finished batch over a corpus with a matched file and an unrelated .sol file
C4_Witness ==
    /\ pc = "done"
    /\ DOMAIN status # {}
    /\ \E x \in CorpusTargets \ ExpectedMatched : EndsWith(x[2], Sol)

(***************************************************************************)
(* C5.  Backfill without overwrite.                                        *)
(***************************************************************************)
\* C5: the persisted report holds every key of the parsed document with the
\* value the model gave it (the five required fields included), and a parsed
\* document that is persisted without being an object is persisted as it is.
C5_NoOverwrite ==
    item.pc = "succeeded" =>
        IF item.parsed.t = "obj"
        THEN /\ item.report.t = "obj"
             /\ \A k \in DOMAIN item.parsed.v :
                    k \in DOMAIN item.report.v /\ item.report.v[k] = item.parsed.v[k]
        ELSE item.report = item.parsed

\* the model gave contract "X" and no tool: the report keeps "X", tool is filled in
C5_Witness ==
    /\ item.pc = "succeeded"
    /\ item.parsed.t = "obj"
    /\ K_contract \in DOMAIN item.parsed.v
    /\ K_tool \notin DOMAIN item.parsed.v
    /\ item.parsed.v[K_contract] # JStr(item.sol_file)
    /\ item.report.v[K_contract] = JStr(<<"X">>)
    /\ item.report.v[K_tool] = JStr(ToolName)

(***************************************************************************)
(* C6.  Every persisted report has the five required fields.               *)
(***************************************************************************)
\* C6: the <identifier>.json of every target that ended Succeeded is an object
\* with the fields start, end, duration, contract and tool.
C6_RequiredFields ==
    \A t \in DOMAIN status :
        status[t] = "Succeeded" =>
            LET d == outputDir[JsonOf(IdentifierOf(t))]
            IN d.t = "obj" /\ RequiredKeys \subseteq DOMAIN d.v

(***************************************************************************)
(* C7.  Fence-stripping round trip.                                        *)
(***************************************************************************)
\* C7: a reply that is the JSON of a document D inside an opening fence (json
\* tagged or bare) and a closing fence, with or without whitespace around them,
\* never fails to parse after the clean-up, and parses to D.
C7_RoundTrip ==
    (item.doc # NoDoc /\ item.pc \notin {"replied", "cleaned"}) =>
        /\ item.pc \notin {"decode_error", "fallback_saved"}
        /\ item.parsed = item.doc

\* a fenced object with whitespace inside and outside the fences, parsed
C7_Witness ==
    /\ item.pc = "parsed"
    /\ item.doc.t = "obj"
    /\ K_issues \in DOMAIN item.doc.v
    /\ Head(item.text) \in Whitespace
    /\ StartsWith(LStrip(item.text), FenceJson \o <<"\n">>)
    /\ item.parsed = item.doc

(***************************************************************************)
(* C8.  An existing report is never touched again.                         *)
(***************************************************************************)
IsJsonPath(path) == EndsWith(path, JsonSuffix)

\* C8: no step, of this run or a later one, removes or changes an
\* <identifier>.json that exists, whatever it holds.
C8_ReportKept ==
    [][\A path \in DOMAIN outputDir :
          IsJsonPath(path) =>
              path \in DOMAIN outputDir' /\ outputDir'[path] = outputDir[path]]_vars

\* a later run skips a target whose report is a truncated file
C8_Witness ==
    /\ run = 2
    /\ \E t \in DOMAIN status :
        /\ status[t] = "SkippedExisting"
        /\ outputDir[JsonOf(IdentifierOf(t))] = Truncated

(***************************************************************************)
(* C9.  No retry.                                                          *)
(***************************************************************************)
\* C9: within a run a target is sent to the model at most once, a skipped
\* target never, and a target whose request failed has had its one request and
\* is not visited again.
C9_NoRetry ==
    /\ \A t \in DOMAIN invoked : t \in DOMAIN status /\ invoked[t] <= 1
    /\ \A t \in DOMAIN status :
        /\ ~Pending(t)
        /\ status[t] = "SkippedExisting" => InvocationsOf(t) = 0
        /\ status[t] = "FailedRequest" => InvocationsOf(t) = 1

\* a finished batch with a skipped target and one whose request failed
C9_Witness ==
    /\ pc = "done"
    /\ \E t, u \in DOMAIN status :
        /\ status[t] = "SkippedExisting" /\ InvocationsOf(t) = 0
        /\ status[u] = "FailedRequest" /\ InvocationsOf(u) = 1

(***************************************************************************)
(* C10.  The counters.                                                     *)
(***************************************************************************)
\* C10: while the batch runs processed_count is the number of targets that
\* ended Succeeded or FallbackSaved and found_count the number of targets met;
\* at the end found_count is the number of matched targets.
C10_Counters ==
    /\ pc \in {"categories", "files", "done"} =>
        /\ processed_count =
             Cardinality({t \in DOMAIN status : status[t] \in {"Succeeded", "FallbackSaved"}})
        /\ found_count = Cardinality(DOMAIN status)
    /\ pc = "done" => found_count = Cardinality(ExpectedMatched)

\* a finished batch: one target skipped, one saved as raw fallback
C10_Witness ==
    /\ pc = "done"
    /\ found_count = 2
    /\ processed_count = 1
    /\ \E t, u \in DOMAIN status :
        status[t] = "SkippedExisting" /\ status[u] = "FallbackSaved"

(***************************************************************************)
(* C11.  duration = end - start.                                           *)
(***************************************************************************)
\* the object reports in the output directory
PersistedReports ==
    {outputDir[path] : path \in {q \in DOMAIN outputDir :
                                    IsJsonPath(q) /\ outputDir[q].t = "obj"}}

\* C11: in every persisted report that is an object with start, end and
\* duration, the three are numbers, duration is not negative and duration is
\* end minus start.
C11_Duration ==
    \A d \in PersistedReports :
        {K_start, K_end, K_duration} \subseteq DOMAIN d.v =>
            /\ d.v[K_start].t = "num" /\ d.v[K_end].t = "num" /\ d.v[K_duration].t = "num"
            /\ d.v[K_duration].v >= 0
            /\ d.v[K_duration].v = d.v[K_end].v - d.v[K_start].v

(***************************************************************************)
(* C12.  The backfilled contract field.                                    *)
(***************************************************************************)
\* C12: when the parsed document is an object without contract, the contract
\* field of the written report is the file name without its .sol extension.
C12_ContractIdentifier ==
    (/\ item.pc = "succeeded"
     /\ item.parsed.t = "obj"
     /\ K_contract \notin DOMAIN item.parsed.v)
    => \E n \in {SubSeq(item.sol_file, 1, k) : k \in 0..Len(item.sol_file)} :
          /\ item.sol_file = n \o Sol
          /\ item.report.v[K_contract] = JStr(n)

(***************************************************************************)
(* C13.  One write per output path and run.                                *)
(***************************************************************************)
\* C13: within a run no output path, <identifier>.json or <identifier>_raw.txt,
\* has been written more than once.
C13_WrittenOnce == \A path \in DOMAIN writes : writes[path] <= 1

(***************************************************************************)
(* C14.  A failed target leaves no trace.                                  *)
(***************************************************************************)
\* C14: a step in which a target ends Failed leaves every file of the output
\* directory as it was, creates none, leaves processed_count as it was, and
\* takes the target out of the loop.
C14_FailedNoOp ==
    [][\A t \in DOMAIN status' :
          (t \notin DOMAIN status /\ status'[t] \in FailedStates) =>
              /\ outputDir' = outputDir
              /\ processed_count' = processed_count
              /\ t[2] \notin filesLeft']_vars

(***************************************************************************)
(* C15.  Every started batch reaches its summary.                          *)
(***************************************************************************)
TerminalStates == {"SkippedExisting", "Succeeded", "FallbackSaved"} \cup FailedStates

DecodeFailedAndOver == item.parsed = NoDoc /\ item.pc \in {"fallback_saved", "failed"}

C17_FatalAtStartup ==
    ~api_key =>
        /\ pc \in {"start", "aborted"}
        /\ ~outDirExists
        /\ outputDir = NoFiles
        /\ mythril_contract_names = {}
        /\ catsLeft = {} /\ filesLeft = {}
        /\ status = NoTargets
        /\ invoked = NoTargets
        /\ writes = NoFiles
        /\ found_count = 0 /\ processed_count = 0

\* the script has been started twice without the credential and has aborted
\* twice, over a corpus with a matched file
C17_Witness ==
    /\ ~api_key
    /\ pc = "aborted"
    /\ run = 2
    /\ ExpectedMatched # {}
    /\ ~outDirExists

(***************************************************************************)
(* C18.  At most one fence opener is stripped.                             *)
(***************************************************************************)
\* the opener stripping the claim describes: the json opener, or else the bare one
OneOpenerStripped(s) ==
    IF StartsWith(s, FenceJson) THEN DropFirst(s, 7)
    ELSE IF StartsWith(s, Fence) THEN DropFirst(s, 3)
    ELSE s

\* C18: the cleaned text is the trimmed reply with at most one fence opener
\* removed from its start (the json opener, or the bare opener when the text did
\* not begin with the json opener), then the closing fence removed and the
\* rest trimmed: a second opener after the json opener is kept.
C18_OneOpener ==
    item.pc \notin {"none", "replied"} =>
        item.output = Strip(StripCloser(OneOpenerStripped(Strip(item.text))))

(***************************************************************************)
(* C19.  A reply that parses to something other than an object.            *)
(***************************************************************************)
\* C19: an item whose cleaned reply parsed to an array, a string, a number or
\* null ends Failed: no report and no raw file is written and processed_count
\* is not incremented.
C19_NonObjectFails ==
    (item.pc \in {"succeeded", "fallback_saved", "failed"}
        /\ item.parsed.t \in {"arr", "str", "num", "null"}) =>
            /\ item.pc = "failed"
            /\ item.report = NoDoc
            /\ item.raw = NoDoc
            /\ processed_count = 0

(***************************************************************************)
(* C20.  processed_count against found_count.                              *)
(***************************************************************************)
\* the targets of the run whose status is one of S
CountOf(S) == Cardinality({t \in DOMAIN status : status[t] \in S})

\* C20: processed_count never exceeds found_count; at the end of the batch
\* found_count is the sum of the skipped, succeeded, fallback-saved and failed
\* targets, and found_count - processed_count is the number of targets that
\* were skipped or failed.
C20_ProcessedWithinFound ==
    /\ processed_count <= found_count
    /\ pc = "done" =>
        /\ found_count = CountOf({"SkippedExisting"}) + CountOf({"Succeeded"})
                           + CountOf({"FallbackSaved"}) + CountOf(FailedStates)
        /\ found_count - processed_count =
               CountOf({"SkippedExisting"}) + CountOf(FailedStates)

\* the end of a second batch: one target skipped, one failed, none processed
C20_Witness ==
    /\ pc = "done"
    /\ run = 2
    /\ found_count = 2
    /\ processed_count = 0
    /\ CountOf({"SkippedExisting"}) = 1
    /\ CountOf(FailedStates) = 1

====
